---- MODULE Spec2Model ----
(***************************************************************************)
(* A model of backups-n-sync: the backup cycle of backups_n_sync.py (the   *)
(* per-volume workflow, the retry layer, the remote retention policy) and  *)
(* the state record of health_server.py that the cycle writes.             *)
(*                                                                         *)
(* File names and volume names are sequences of one-character strings, so  *)
(* that formatting a name (strftime) and parsing one (the regular          *)
(* expression and strptime of parse_backup_date) are computed, not assumed.*)
(* Sizes, durations and the checksum's value decide no branch and are left *)
(* out; every branch, counter, list and file the code touches is kept.     *)
(***************************************************************************)
EXTENDS Integers, Sequences, FiniteSets, TLC

VARIABLES
    pc,                 \* position of the process that is followed (main() of the cycle, run_command, or the scheduler)
    exit_code,          \* exit status of the process that is followed, "none" while it runs
    max_backups,        \* MAXBKP
    sync_only,          \* SYNCONLY is set
    volumes,            \* the list read_volumes_list returned
    idx,                \* 1-based position of the for loop in volumes
    volumes_success,
    volumes_failed,
    failed_volumes,     \* sequence of [volume, error]
    successful_volumes, \* sequence of [volume, rclone_check, test_restore]
    volume_states,      \* dict: volume name -> state (0 success, 1 failed, 2 skipped)
    rclone_verified,    \* locals of the loop body
    restore_ok,
    attempt,            \* run_command of the upload: index of the current attempt
    slept,              \* run_command of the upload: the delays waited so far
    files,              \* apply_retention_policy: what list_remote_backups returned
    removed,            \* apply_retention_policy: entries sent to rclone delete, in order
    deletion_errors,    \* apply_retention_policy: entries whose deletion failed
    artifacts,          \* the local backup files that exist (one path per volume name)
    remote,             \* content of the current volume's remote directory
    store,              \* the state record of health_server.py (STATE_FILE)
    hist,               \* history: what has happened to the volume of position idx
    retries,            \* run_command: its arguments
    retry_delay,
    capture_output,
    last_error,         \* run_command: the error captured from the latest failed attempt
    raised,             \* run_command: the error it raised to its caller, None if none
    result,             \* run_command: the value it returned
    outcomes,           \* history: how each attempt of run_command ended, in order
    shutdown_requested, \* entrypoint.py: the two globals
    backup_in_progress,
    wakeup_time_str,    \* WAKEUPTIME: "" (not set), "bad" (not HH:MM) or "HH:MM"
    wakeup_time,        \* the time of day parse_time returned, in ticks after midnight
    skip_first_run,     \* SKIPFIRSTRUN
    required_settings,  \* the settings the cycle requires are all present
    now,                \* the clock, in ticks since midnight of the day of the start
    next_run,           \* main: what get_next_run_time returned last, None before
    sleep_seconds,      \* main: locals of the sleep loop
    total_slept,
    child,              \* the cycle subprocess: "none", "running" or "exited"
    returncode,         \* exit status of the cycle subprocess
    cycles,             \* history: cycle subprocesses started
    signals,            \* history: termination signals delivered
    asked_at,           \* history: the clock get_next_run_time read
    first_run_at,       \* history: the clock when main chose to run at once, None if not
    status_log,         \* history: status values written from 'running' of run_backup
                        \* to the idle or error that ends the cycle
    response,           \* health server: the response sent last, None before the first
    handler_update,     \* update_state inside signal_handler: the record it has read
                        \* and the keys it will write, None outside of it
    cycle_pc,           \* the cycle subprocess seen by its writes: where its main() is
    cycle_update,       \* update_state inside the cycle subprocess: as handler_update
    main_update         \* update_state inside the sleep loop of main: as handler_update

\* the variables of one call of run_command checked alone
command_vars == <<retries, retry_delay, capture_output, last_error, raised, result,
                  outcomes>>

\* the variables of the scheduler process of entrypoint.py
entrypoint_vars == <<shutdown_requested, backup_in_progress, wakeup_time_str,
                     wakeup_time, skip_first_run, required_settings, now, next_run,
                     sleep_seconds, total_slept, child, returncode, cycles, signals,
                     asked_at, first_run_at, status_log>>

\* the variables of the whole system: the health server, and the two processes
\* that write the state record while the other one runs
system_vars == <<response, handler_update, cycle_pc, cycle_update, main_update>>

\* what a step of the backup cycle leaves alone
outside_cycle == <<command_vars, entrypoint_vars, system_vars>>

vars == <<pc, exit_code, max_backups, sync_only, volumes, idx, volumes_success,
          volumes_failed, failed_volumes, successful_volumes, volume_states,
          rclone_verified, restore_ok, attempt, slept, files, removed,
          deletion_errors, artifacts, remote, store, hist, outside_cycle>>

(***************************************************************************)
(* Bounds of the model.                                                    *)
(***************************************************************************)
MaxVolumes == 2     \* lines of the volume list file
MaxListing == 3     \* entries of a remote directory when retention is checked alone
MaxKeep == 3        \* largest MAXBKP when retention is checked alone

(***************************************************************************)
(* Characters, numbers and dates.                                          *)
(***************************************************************************)
DigitChars == <<"0", "1", "2", "3", "4", "5", "6", "7", "8", "9">>

IsDigit(c) == \E n \in 1..10 : DigitChars[n] = c

DigitVal(c) == (CHOOSE n \in 1..10 : DigitChars[n] = c) - 1

RECURSIVE ToInt(_)
ToInt(s) == IF s = <<>> THEN 0
            ELSE ToInt(SubSeq(s, 1, Len(s) - 1)) * 10 + DigitVal(s[Len(s)])

RECURSIVE Pad(_, _)
\* n written with w digits, zero padded (%Y is 4 wide, %m and %d are 2)
Pad(n, w) == IF w = 0 THEN <<>>
             ELSE Append(Pad(n \div 10, w - 1), DigitChars[(n % 10) + 1])

\* a date is <<year, month, day>>; None is the empty tuple
None == <<>>

IsLeap(y) == (y % 4 = 0 /\ y % 100 # 0) \/ y % 400 = 0

DaysInMonth(y, m) == IF m = 2 THEN (IF IsLeap(y) THEN 29 ELSE 28)
                     ELSE IF m \in {4, 6, 9, 11} THEN 30 ELSE 31

\* datetime.strftime('%Y%m%d')
strftime(date) == Pad(date[1], 4) \o Pad(date[2], 2) \o Pad(date[3], 2)

\* variant of strptime that skips the calendar check
strptime_unchecked(date_str) ==
    <<ToInt(SubSeq(date_str, 1, 4)), ToInt(SubSeq(date_str, 5, 6)),
      ToInt(SubSeq(date_str, 7, 8))>>

\* datetime.strptime(date_str, '%Y%m%d') on 8 digits; None stands for the
\* ValueError that parse_backup_date swallows.  The format's pattern takes a
\* 4-digit year, a month 01..12 and a day 01..31 and must consume all 8
\* digits; datetime then rejects year 0 and a day the month does not have.
strptime(date_str) ==
    LET y == ToInt(SubSeq(date_str, 1, 4))
        m == ToInt(SubSeq(date_str, 5, 6))
        d == ToInt(SubSeq(date_str, 7, 8))
    IN  IF y >= 1 /\ m >= 1 /\ m <= 12 /\ d >= 1 /\ d <= DaysInMonth(y, m)
        THEN <<y, m, d>> ELSE None

\* comparison of two datetimes
DateLess(a, b) ==
    \/ a[1] < b[1]
    \/ a[1] = b[1] /\ a[2] < b[2]
    \/ a[1] = b[1] /\ a[2] = b[2] /\ a[3] < b[3]

TarGz == <<".", "t", "a", "r", ".", "g", "z">>

\* re.search(r'_(\d{8})\.tar\.gz$', filename), then strptime of the group
parse_backup_date(filename) ==
    LET n == Len(filename)
    IN  IF /\ n >= 16
           /\ SubSeq(filename, n - 6, n) = TarGz
           /\ \A k \in (n - 14)..(n - 7) : IsDigit(filename[k])
           /\ filename[n - 15] = "_"
        THEN strptime(SubSeq(filename, n - 14, n - 7))
        ELSE None

(***************************************************************************)
(* apply_retention_policy, its pure part.                                  *)
(***************************************************************************)
\* the (f, date) pairs of the files that carry a date, in listing order
backups_with_dates(fs) ==
    LET Dated(p) == p[2] # None
    IN  SelectSeq([k \in 1..Len(fs) |-> <<fs[k], parse_backup_date(fs[k])>>], Dated)

\* one step of a stable sort, newest first: p goes behind every pair that is
\* not older than it
InsertNewestFirst(sorted, p) ==
    LET before == {k \in 1..Len(sorted) : ~DateLess(sorted[k][2], p[2])}
        cut == IF before = {} THEN 0
               ELSE CHOOSE k \in before : \A j \in before : j <= k
        \* the pairs not older than p form a prefix of a sorted sequence
    IN  SubSeq(sorted, 1, cut) \o <<p>> \o SubSeq(sorted, cut + 1, Len(sorted))

RECURSIVE SortFrom(_, _)
SortFrom(sorted, rest) ==
    IF rest = <<>> THEN sorted
    ELSE SortFrom(InsertNewestFirst(sorted, Head(rest)), Tail(rest))

\* variant of the sort that leaves the listing order
sort_omitted(pairs) == pairs

\* backups_with_dates.sort(key=lambda x: x[1], reverse=True)
SortNewestFirst(pairs) == SortFrom(<<>>, pairs)

\* variant of the loop test that keeps one entry less
Keeps_one_less(i, n) == i < n - 1

\* the test of the loop over the sorted pairs: position i (from 0) is kept
Keeps(i, n) == i < n

RECURSIVE RetentionLoop(_, _, _, _, _)
\* for i, (filename, date) in enumerate(s): the names on the branch asked for
RetentionLoop(s, k, n, keep, acc) ==
    IF k > Len(s) THEN acc
    ELSE RetentionLoop(s, k + 1, n, keep,
                       IF Keeps(k - 1, n) = keep THEN Append(acc, s[k][1]) ELSE acc)

\* the file names the loop keeps, and those it sends to rclone delete, in order
KeptFiles(fs, n) ==
    RetentionLoop(SortNewestFirst(backups_with_dates(fs)), 1, n, TRUE, <<>>)

RemovedFiles(fs, n) ==
    RetentionLoop(SortNewestFirst(backups_with_dates(fs)), 1, n, FALSE, <<>>)

Range(s) == {s[k] : k \in 1..Len(s)}

(***************************************************************************)
(* The world of one cycle.                                                 *)
(***************************************************************************)
\* datetime.now() when the cycle starts
Today == <<2024, 1, 10>>

run_timestamp == strftime(Today)

VolA == <<"a">>
VolB == <<"b">>

\* lines a volume list file may hold: names, a comment, a blank line, a
\* name with trailing white space
Lines == {VolA, VolB, <<"#", "b">>, <<" ">>, <<"a", " ">>}

RECURSIVE strip(_)
\* str.strip() for the blank character
strip(line) ==
    IF line = <<>> THEN line
    ELSE IF Head(line) = " " THEN strip(Tail(line))
    ELSE IF line[Len(line)] = " " THEN strip(SubSeq(line, 1, Len(line) - 1))
    ELSE line

\* the list comprehension of read_volumes_list
read_volumes_list(file) ==
    LET Named(line) == strip(line) # <<>> /\ Head(strip(line)) # "#"
        kept == SelectSeq(file, Named)
    IN  [k \in 1..Len(kept) |-> strip(kept[k])]

VolumeFiles == UNION {[1..n -> Lines] : n \in 0..MaxVolumes}

\* f"{volume}_{run_timestamp}.tar.gz"
backup_filename(volume) == volume \o <<"_">> \o run_timestamp \o TarGz

DatedName(stem, date) == stem \o <<"_">> \o strftime(date) \o TarGz

Readme == <<"r", "e", "a", "d", "m", "e", ".", "t", "x", "t">>

\* what the remote directory of a volume may hold before the upload: nothing,
\* an archive of the day before, or one dated after today
RemoteBefore(v) ==
    {{}, {DatedName(v, <<2024, 1, 9>>)}, {DatedName(v, <<2024, 1, 11>>)}}

\* the values of MAXBKP a whole cycle is run with: keep nothing, keep the newest
CycleKeeps == {0, 1}

\* the orders in which a listing may return the entries of a directory
Orders(S) ==
    {f \in [1..Cardinality(S) -> S] : \A a, b \in 1..Cardinality(S) : a # b => f[a] # f[b]}

\* a dict with key k set to v
DictSet(d, k, v) == [x \in DOMAIN d \cup {k} |-> IF x = k THEN v ELSE d[x]]

EmptyDict == [x \in {} |-> 0]

NoOperation == <<>>

\* health_server.update_state(**kwargs): read the record, overwrite the keys
\* given, write it back
update_state(given) ==
    store' = [k \in DOMAIN store \cup DOMAIN given |->
                 IF k \in DOMAIN given THEN given[k] ELSE store[k]]

volume == volumes[idx]

Notes(events) == hist' = hist \cup events

(***************************************************************************)
(* The cycle: main() of backups_n_sync.py.                                 *)
(***************************************************************************)
InitStore ==
    [current_operation |-> <<"backup_cycle">>, volumes_backed_up |-> 0,
     volumes_failed |-> 0, volume_states |-> EmptyDict, last_error |-> None]

InitLocals ==
    /\ rclone_verified = FALSE /\ restore_ok = FALSE
    /\ attempt = 0 /\ slept = <<>>
    /\ files = <<>> /\ removed = <<>> /\ deletion_errors = <<>>

\* no call of run_command is followed on its own
NoCommand ==
    /\ retries = 0 /\ retry_delay = 1 /\ capture_output = FALSE
    /\ last_error = None /\ raised = None /\ result = None /\ outcomes = <<>>

\* the scheduler is not followed
NoScheduler ==
    /\ shutdown_requested = FALSE /\ backup_in_progress = FALSE
    /\ wakeup_time_str = "" /\ wakeup_time = 0 /\ skip_first_run = FALSE
    /\ required_settings = TRUE
    /\ now = 0 /\ next_run = None /\ sleep_seconds = 0 /\ total_slept = 0
    /\ child = "none" /\ returncode = 0 /\ cycles = 0 /\ signals = 0
    /\ asked_at = 0 /\ first_run_at = None /\ status_log = <<>>
    /\ response = None /\ handler_update = None
    /\ cycle_pc = "none" /\ cycle_update = None /\ main_update = None

Init ==
    /\ pc = "start" /\ exit_code = "none"
    /\ max_backups \in CycleKeeps
    /\ sync_only \in BOOLEAN
    /\ volumes = <<>> /\ idx = 1 /\ hist = {}
    /\ volumes_success = 0 /\ volumes_failed = 0
    /\ failed_volumes = <<>> /\ successful_volumes = <<>>
    /\ volume_states = EmptyDict
    /\ InitLocals
    /\ artifacts = {} /\ remote = {}
    /\ store = InitStore
    /\ NoCommand /\ NoScheduler

counters == <<volumes_success, volumes_failed, failed_volumes, successful_volumes,
              volume_states>>
locals == <<rclone_verified, restore_ok, attempt, slept, files, removed,
            deletion_errors>>
config == <<max_backups, sync_only, volumes>>

\* the checks of the rclone config file, RCL_TARGET and RCL_PREFIX, then the
\* branch on SYNCONLY
check_config ==
    /\ pc = "start"
    /\ \E conf_exists, target_set, prefix_set \in BOOLEAN :
          IF conf_exists /\ target_set /\ prefix_set
          THEN /\ pc' = IF sync_only THEN "summary" ELSE "run_prescript"
               /\ UNCHANGED exit_code
          ELSE pc' = "exited" /\ exit_code' = "1"
    /\ UNCHANGED <<config, idx, hist, counters, locals, artifacts, remote, store>>
    /\ UNCHANGED outside_cycle

\* the global prescript: absent, run, or failed with a warning
run_prescript ==
    /\ pc = "run_prescript"
    /\ pc' = "read_volumes"
    /\ UNCHANGED <<exit_code, config, idx, hist, counters, locals, artifacts, remote,
                   store>>
    /\ UNCHANGED outside_cycle

read_volumes ==
    /\ pc = "read_volumes"
    /\ \/ /\ pc' = "exited" /\ exit_code' = "1"      \* the file is missing
          /\ UNCHANGED volumes
       \/ \E file \in VolumeFiles :
             /\ volumes' = read_volumes_list(file)
             /\ pc' = "loop" /\ UNCHANGED exit_code
    /\ UNCHANGED <<max_backups, sync_only, idx, hist, counters, locals, artifacts, remote,
                   store>>
    /\ UNCHANGED outside_cycle

\* the head of the for loop and the first statements of its body
for_volume ==
    /\ pc = "loop"
    /\ IF idx <= Len(volumes)
       THEN /\ update_state([current_operation |-> <<"backing_up", volume>>])
            /\ pc' = "check_source"
            /\ hist' = {}
       ELSE pc' = "summary" /\ UNCHANGED <<store, hist>>
    /\ rclone_verified' = FALSE /\ restore_ok' = FALSE
    /\ attempt' = 0 /\ slept' = <<>>
    /\ files' = <<>> /\ removed' = <<>> /\ deletion_errors' = <<>>
    /\ remote' = {}
    /\ UNCHANGED <<exit_code, config, idx, counters, artifacts>>
    /\ UNCHANGED outside_cycle

\* continue: on to the next volume of the list
Continue == idx' = idx + 1 /\ pc' = "loop"

\* variant of the bookkeeping that forgets to count the volume
record_failure_uncounted(error, state) ==
    /\ UNCHANGED volumes_failed
    /\ failed_volumes' = Append(failed_volumes, [volume |-> volume, error |-> error])
    /\ volume_states' = DictSet(volume_states, volume, state)
    /\ update_state([volumes_backed_up |-> volumes_success,
                     volumes_failed |-> volumes_failed',
                     volume_states |-> volume_states'])
    /\ UNCHANGED <<volumes_success, successful_volumes>>

\* the bookkeeping every failing branch repeats
record_failure(error, state) ==
    /\ volumes_failed' = volumes_failed + 1
    /\ failed_volumes' = Append(failed_volumes, [volume |-> volume, error |-> error])
    /\ volume_states' = DictSet(volume_states, volume, state)
    /\ update_state([volumes_backed_up |-> volumes_success,
                     volumes_failed |-> volumes_failed',
                     volume_states |-> volume_states'])
    /\ UNCHANGED <<volumes_success, successful_volumes>>

\* variant of check_source without the continue of the missing-directory branch
check_source_falls_through ==
    /\ pc = "check_source"
    /\ \/ /\ record_failure("Directory does not exist", 2)
          /\ Notes({"source_missing", "recorded_skipped"})
          /\ pc' = "volume_prescript" /\ UNCHANGED idx
       \/ /\ pc' = "volume_prescript"
          /\ Notes({"source_present"})
          /\ UNCHANGED <<idx, counters, store>>
    /\ UNCHANGED <<exit_code, config, locals, artifacts, remote>>
    /\ UNCHANGED outside_cycle

\* the test of os.path.isdir(source_path) and the branch that skips the volume
check_source ==
    /\ pc = "check_source"
    /\ \/ /\ record_failure("Directory does not exist", 2)    \* not os.path.isdir
          /\ Notes({"source_missing", "recorded_skipped"})
          /\ Continue
       \/ /\ pc' = "volume_prescript"
          /\ Notes({"source_present"})
          /\ UNCHANGED <<idx, counters, store>>
    /\ UNCHANGED <<exit_code, config, locals, artifacts, remote>>
    /\ UNCHANGED outside_cycle

\* the volumes that carry a .bkpnsync/prescript.sh
WithPrescript == {VolA}

\* variant of run_volume_prescript that answers True when the script has failed
run_volume_prescript_lenient ==
    /\ pc = "volume_prescript"
    /\ \/ /\ volume \notin WithPrescript
          /\ pc' = "create_backup"
          /\ Notes({"prescript_absent"})
          /\ UNCHANGED <<idx, counters, store>>
       \/ /\ volume \in WithPrescript
          /\ pc' = "create_backup"
          /\ Notes({"prescript_called"})
          /\ UNCHANGED <<idx, counters, store>>
       \/ /\ volume \in WithPrescript
          /\ pc' = "create_backup"
          /\ Notes({"prescript_called", "prescript_failed"})
          /\ UNCHANGED <<idx, counters, store>>
    /\ UNCHANGED <<exit_code, config, locals, artifacts, remote>>
    /\ UNCHANGED outside_cycle

\* run_volume_prescript: True (no script), True (the script ran), or False (it
\* failed), and then the branch of main that skips the volume
run_volume_prescript ==
    /\ pc = "volume_prescript"
    /\ \/ /\ volume \notin WithPrescript          \* not os.path.exists
          /\ pc' = "create_backup"
          /\ Notes({"prescript_absent"})
          /\ UNCHANGED <<idx, counters, store>>
       \/ /\ volume \in WithPrescript
          /\ pc' = "create_backup"
          /\ Notes({"prescript_called"})
          /\ UNCHANGED <<idx, counters, store>>
       \/ /\ volume \in WithPrescript
          /\ record_failure("Volume prescript failed", 2)
          /\ Notes({"prescript_called", "prescript_failed", "recorded_skipped"})
          /\ Continue
    /\ UNCHANGED <<exit_code, config, locals, artifacts, remote>>
    /\ UNCHANGED outside_cycle

\* create_backup: the archive is written, or tar fails and leaves a partial
\* file, or nothing is written at all (makedirs fails)
create_backup ==
    /\ pc = "create_backup"
    /\ \/ /\ artifacts' = artifacts \cup {volume}
          /\ pc' = "calculate_sha256" /\ Notes({"archive_called", "archive_created"})
       \/ /\ artifacts' = artifacts \cup {volume}
          /\ pc' = "except_creation" /\ Notes({"archive_called", "archive_failed"})
       \/ /\ UNCHANGED artifacts
          /\ pc' = "except_creation" /\ Notes({"archive_called", "archive_failed"})
    /\ UNCHANGED <<exit_code, config, idx, counters, locals, remote, store>>
    /\ UNCHANGED outside_cycle

\* calculate_sha256 returns the digest or None; neither stops the workflow
calculate_sha256 ==
    /\ pc = "calculate_sha256"
    /\ pc' = "upload"
    /\ UNCHANGED <<exit_code, config, idx, hist, counters, locals, artifacts, remote,
                   store>>
    /\ UNCHANGED outside_cycle

\* variant of the delay whose exponent starts at 1
backoff_delay_doubled(base, a) == base * 2 ^ (a + 1)

\* run_command: the delay before the retry that follows attempt number a
backoff_delay(base, a) == base * 2 ^ a

\* run_command: attempt number a (from 0) failed; another attempt follows
retry_left(a, r) == a < r

\* upload_to_rclone calls run_command with retries=max_retries, retry_delay=2
UploadRetries == 3
UploadRetryDelay == 2

\* one attempt of the rclone copy inside run_command: it succeeds; it exits
\* non-zero (retried after the back-off, raised after the last attempt); or it
\* raises something else, which upload_to_rclone wraps at once
upload_to_rclone ==
    /\ pc = "upload"
    /\ \/ /\ \E before \in RemoteBefore(volume) :
                remote' = before \cup {backup_filename(volume)}
          /\ pc' = "verify" /\ Notes({"upload_called", "upload_ok"})
          /\ attempt' = 0 /\ slept' = <<>>         \* run_command has returned
       \/ /\ retry_left(attempt, UploadRetries)
          /\ slept' = Append(slept, backoff_delay(UploadRetryDelay, attempt))
          /\ attempt' = attempt + 1
          /\ Notes({"upload_called"})
          /\ UNCHANGED <<pc, remote>>
       \/ /\ ~retry_left(attempt, UploadRetries)
          /\ pc' = "except_rclone" /\ Notes({"upload_called", "upload_exhausted"})
          /\ UNCHANGED <<attempt, slept, remote>>
       \/ /\ pc' = "except_rclone" /\ Notes({"upload_called", "upload_error"})
          /\ UNCHANGED <<attempt, slept, remote>>
    /\ UNCHANGED <<exit_code, config, idx, counters, rclone_verified,
                   restore_ok, files, removed, deletion_errors, artifacts, store>>
    /\ UNCHANGED outside_cycle

\* variant of verify_rclone in which a failed comparison is raised as an
\* RcloneError instead of returned
verify_rclone_raises ==
    /\ pc = "verify"
    /\ rclone_verified' \in BOOLEAN
    /\ pc' = IF rclone_verified' THEN "test_restore" ELSE "except_rclone"
    /\ Notes({"verify_called"} \cup (IF rclone_verified' THEN {} ELSE {"verify_failed"}))
    /\ UNCHANGED <<exit_code, config, idx, counters, restore_ok, attempt,
                   slept, files, removed, deletion_errors, artifacts, remote, store>>
    /\ UNCHANGED outside_cycle

\* verify_rclone returns True or False and raises nothing
verify_rclone ==
    /\ pc = "verify"
    /\ rclone_verified' \in BOOLEAN
    /\ pc' = "test_restore"
    /\ Notes({"verify_called"} \cup (IF rclone_verified' THEN {} ELSE {"verify_failed"}))
    /\ UNCHANGED <<exit_code, config, idx, counters, restore_ok, attempt,
                   slept, files, removed, deletion_errors, artifacts, remote, store>>
    /\ UNCHANGED outside_cycle

test_restore ==
    /\ pc = "test_restore"
    /\ restore_ok' \in BOOLEAN
    /\ pc' = "delete_local" /\ Notes({"restore_called"})
    /\ UNCHANGED <<exit_code, config, idx, counters, rclone_verified,
                   attempt, slept, files, removed, deletion_errors, artifacts, remote,
                   store>>
    /\ UNCHANGED outside_cycle

\* delete_local_backup after the upload: os.remove succeeds, or raises into the
\* except Exception clause of the loop body
delete_local_backup ==
    /\ pc = "delete_local"
    /\ IF volume \in artifacts
       THEN \/ /\ artifacts' = artifacts \ {volume}
               /\ pc' = "retention" /\ Notes({"artifact_removed"})
            \/ /\ UNCHANGED artifacts
               /\ pc' = "except_generic" /\ Notes({"delete_raised"})
       ELSE pc' = "retention" /\ UNCHANGED <<artifacts, hist>>
    /\ UNCHANGED <<exit_code, config, idx, counters, locals, remote, store>>
    /\ UNCHANGED outside_cycle

\* a deletion succeeded after an earlier deletion of the same pass had failed
DeletedAfterFailure(doomed, failing) ==
    \E i, j \in 1..Len(doomed) : i < j /\ doomed[i] \in failing /\ doomed[j] \notin failing

\* variant of apply_retention_policy in which the first deletion that fails is
\* raised to the caller instead of collected
apply_retention_policy_escalates ==
    /\ pc = "retention"
    /\ \E listed \in {<<>>} \cup Orders(remote) :
          LET doomed == RemovedFiles(listed, max_backups)
          IN  \E failing \in SUBSET Range(doomed) :
                 LET Failing(f) == f \in failing
                     first == IF failing = {} THEN Len(doomed)
                              ELSE CHOOSE i \in 1..Len(doomed) :
                                      /\ doomed[i] \in failing
                                      /\ \A j \in 1..(i - 1) : doomed[j] \notin failing
                     tried == SubSeq(doomed, 1, first)
                 IN  /\ files' = listed
                     /\ removed' = tried
                     /\ deletion_errors' = SelectSeq(tried, Failing)
                     /\ remote' = remote \ (Range(tried) \ failing)
                     /\ pc' = IF failing = {} THEN "retention_return" ELSE "except_generic"
    /\ Notes({"retention_called"} \cup
             (IF remote' # remote THEN {"remote_deleted"} ELSE {}) \cup
             (IF deletion_errors' # <<>> THEN {"deletion_failed"} ELSE {}))
    /\ UNCHANGED <<exit_code, config, idx, counters, rclone_verified,
                   restore_ok, attempt, slept, artifacts, store>>
    /\ UNCHANGED outside_cycle

\* apply_retention_policy: list the directory (no entries, or the listing
\* failed: return), keep the newest max_backups dated entries, send the others
\* to rclone delete; a deletion that fails is collected, not raised
apply_retention_policy ==
    /\ pc = "retention"
    /\ \E listed \in {<<>>} \cup Orders(remote) :
          LET doomed == RemovedFiles(listed, max_backups)
          IN  \E failing \in SUBSET Range(doomed) :
                 LET Failing(f) == f \in failing
                 IN  /\ files' = listed
                     /\ removed' = doomed
                     /\ deletion_errors' = SelectSeq(doomed, Failing)
                     /\ remote' = remote \ (Range(doomed) \ failing)
                     /\ Notes({"retention_called"} \cup
                              (IF remote' # remote THEN {"remote_deleted"} ELSE {}) \cup
                              (IF failing # {} THEN {"deletion_failed"} ELSE {}) \cup
                              (IF DeletedAfterFailure(doomed, failing)
                               THEN {"deleted_after_failure"} ELSE {}))
    /\ pc' = "retention_return"
    /\ UNCHANGED <<exit_code, config, idx, counters, rclone_verified,
                   restore_ok, attempt, slept, artifacts, store>>
    /\ UNCHANGED outside_cycle

\* apply_retention_policy returns: its locals are gone, the directory stays
retention_return ==
    /\ pc = "retention_return"
    /\ files' = <<>> /\ removed' = <<>> /\ deletion_errors' = <<>>
    /\ pc' = "volume_postscript"
    /\ UNCHANGED <<exit_code, config, idx, hist, counters, rclone_verified,
                   restore_ok, attempt, slept, artifacts, remote, store>>
    /\ UNCHANGED outside_cycle

\* variant of run_volume_postscript in which the failure of the script is raised
run_volume_postscript_raises ==
    /\ pc = "volume_postscript"
    /\ \/ Notes({"postscript_called"}) /\ pc' = "track_success"
       \/ Notes({"postscript_called", "postscript_failed"}) /\ pc' = "except_generic"
    /\ UNCHANGED <<exit_code, config, idx, counters, locals, artifacts, remote, store>>
    /\ UNCHANGED outside_cycle

\* run_volume_postscript: no script or the script ran, or it failed with a warning
run_volume_postscript ==
    /\ pc = "volume_postscript"
    /\ \/ Notes({"postscript_called"})
       \/ Notes({"postscript_called", "postscript_failed"})
    /\ pc' = "track_success"
    /\ UNCHANGED <<exit_code, config, idx, counters, locals, artifacts, remote, store>>
    /\ UNCHANGED outside_cycle

\* the end of the try block: the volume is counted as a success
track_success ==
    /\ pc = "track_success"
    /\ volumes_success' = volumes_success + 1
    /\ successful_volumes' =
          Append(successful_volumes,
                 [volume |-> volume, rclone_check |-> rclone_verified,
                  test_restore |-> restore_ok])
    /\ volume_states' = DictSet(volume_states, volume, 0)
    /\ update_state([volumes_backed_up |-> volumes_success',
                     volumes_failed |-> volumes_failed,
                     volume_states |-> volume_states'])
    /\ Notes({"recorded_success"})
    /\ Continue
    /\ UNCHANGED <<exit_code, config, volumes_failed, failed_volumes, locals, artifacts,
                   remote>>
    /\ UNCHANGED outside_cycle

\* the end of each except clause: delete the local file if it exists, then
\* continue; os.remove may raise here too, and nothing catches it
cleanup_and_continue(events) ==
    IF volume \in artifacts
    THEN \/ /\ artifacts' = artifacts \ {volume}
            /\ Notes(events \cup {"artifact_removed"})
            /\ Continue /\ UNCHANGED exit_code
         \/ /\ UNCHANGED <<artifacts, idx>>
            /\ Notes(events \cup {"cleanup_raised"})
            /\ pc' = "crashed" /\ exit_code' = "1"
    ELSE /\ UNCHANGED <<artifacts, exit_code>>
         /\ Notes(events)
         /\ Continue

except_BackupCreationError ==
    /\ pc = "except_creation"
    /\ record_failure("Backup creation failed", 1)
    /\ cleanup_and_continue({"recorded_failed"})
    /\ UNCHANGED <<config, locals, remote>>
    /\ UNCHANGED outside_cycle

\* variant of the clause that prunes the remote directory before it continues
except_RcloneError_prunes ==
    /\ pc = "except_rclone"
    /\ record_failure("Upload failed", 1)
    /\ Notes({"recorded_failed"})
    /\ pc' = "retention"
    /\ UNCHANGED <<exit_code, idx, artifacts, config, locals, remote>>
    /\ UNCHANGED outside_cycle

except_RcloneError ==
    /\ pc = "except_rclone"
    /\ record_failure("Upload failed", 1)
    /\ cleanup_and_continue({"recorded_failed"})
    /\ UNCHANGED <<config, locals, remote>>
    /\ UNCHANGED outside_cycle

except_Exception ==
    /\ pc = "except_generic"
    /\ record_failure("Unexpected error", 1)
    /\ cleanup_and_continue({"recorded_failed"})
    /\ UNCHANGED <<config, locals, remote>>
    /\ UNCHANGED outside_cycle

\* after the loop: the summary report and the last update_state of the cycle
summary_report ==
    /\ pc = "summary"
    /\ update_state(
          [volumes_backed_up |-> volumes_success,
           volumes_failed |-> volumes_failed,
           current_operation |-> NoOperation,
           last_error |-> IF failed_volumes = <<>> THEN None
                          ELSE <<failed_volumes[Len(failed_volumes)].error>>,
           volume_states |-> volume_states,
           last_verification |-> successful_volumes])
    /\ pc' = "run_postscript"
    /\ UNCHANGED <<exit_code, config, idx, hist, counters, locals, artifacts, remote>>
    /\ UNCHANGED outside_cycle

\* the global postscript, then main() returns
run_postscript ==
    /\ pc = "run_postscript"
    /\ pc' = "done" /\ exit_code' = "0"
    /\ UNCHANGED <<config, idx, hist, counters, locals, artifacts, remote, store>>
    /\ UNCHANGED outside_cycle

Next ==
    \/ check_config
    \/ run_prescript
    \/ read_volumes
    \/ for_volume
    \/ check_source
    \/ run_volume_prescript
    \/ create_backup
    \/ calculate_sha256
    \/ upload_to_rclone
    \/ verify_rclone
    \/ test_restore
    \/ delete_local_backup
    \/ apply_retention_policy
    \/ retention_return
    \/ run_volume_postscript
    \/ track_success
    \/ except_BackupCreationError
    \/ except_RcloneError
    \/ except_Exception
    \/ summary_report
    \/ run_postscript

Spec == Init /\ [][Next]_vars

(***************************************************************************)
(* Retention checked alone: apply_retention_policy on any small directory  *)
(* and any MAXBKP.  The names are written from dates with strftime; those  *)
(* of Undated carry no date the parser may accept.                         *)
(***************************************************************************)
Dated == {<<VolA, <<2024, 1, 8>>>>, <<VolA, <<2024, 1, 9>>>>, <<VolA, <<2024, 1, 10>>>>,
          <<VolA, <<2024, 2, 29>>>>, <<VolB, <<2024, 1, 9>>>>}

DatedEntries == {DatedName(p[1], p[2]) : p \in Dated}

\* 30 February, month 13, 29 February of a common year, a 7-digit field
InvalidDateEntries ==
    {DatedName(VolA, <<2024, 2, 30>>), DatedName(VolA, <<2024, 13, 1>>),
     DatedName(VolA, <<2023, 2, 29>>)}

Undated ==
    InvalidDateEntries \cup
    {Readme, VolA \o <<"_">> \o SubSeq(strftime(<<2024, 1, 10>>), 1, 7) \o TarGz}

RetentionRemotes ==
    {S \in SUBSET (DatedEntries \cup Undated) : Cardinality(S) <= MaxListing}

RetentionInit ==
    /\ pc = "retention" /\ exit_code = "none"
    /\ max_backups \in (-1)..MaxKeep
    /\ sync_only = FALSE
    /\ volumes = <<VolA>> /\ idx = 1
    /\ hist = {"source_present", "prescript_called", "archive_called", "archive_created",
               "upload_called", "upload_ok", "verify_called", "restore_called",
               "artifact_removed"}
    /\ volumes_success = 0 /\ volumes_failed = 0
    /\ failed_volumes = <<>> /\ successful_volumes = <<>>
    /\ volume_states = EmptyDict
    /\ InitLocals
    /\ artifacts = {}
    /\ remote \in RetentionRemotes
    /\ store = [InitStore EXCEPT !.current_operation = <<"backing_up", VolA>>]
    /\ NoCommand /\ NoScheduler

RetentionNext == apply_retention_policy \/ retention_return

RetentionSpec == RetentionInit /\ [][RetentionNext]_vars

(***************************************************************************)
(* run_command checked alone: one call, each attempt of the command either *)
(* exits 0, exits non-zero (CalledProcessError, check is True at every     *)
(* call site) or cannot be run at all (any other exception).               *)
(***************************************************************************)
MaxRetries == 3     \* largest retries argument (the call sites pass 0, 2 and 3)
MaxDelay == 2       \* largest retry_delay argument (the call sites pass 1 and 2)

\* a cycle that has not started: the cycle's variables while something else runs
NoCycle ==
    /\ exit_code = "none"
    /\ max_backups = 0 /\ sync_only = FALSE
    /\ volumes = <<>> /\ idx = 1 /\ hist = {}
    /\ volumes_success = 0 /\ volumes_failed = 0
    /\ failed_volumes = <<>> /\ successful_volumes = <<>>
    /\ volume_states = EmptyDict
    /\ rclone_verified = FALSE /\ restore_ok = FALSE
    /\ files = <<>> /\ removed = <<>> /\ deletion_errors = <<>>
    /\ artifacts = {} /\ remote = {}

cycle_vars == <<exit_code, config, idx, hist, counters, rclone_verified, restore_ok,
                files, removed, deletion_errors, artifacts, remote>>

\* variant of the loop header that makes one attempt less
in_range_short(a, r) == a < r

\* for attempt in range(retries + 1)
in_range(a, r) == a < r + 1

RunCommandInit ==
    /\ pc = "run_command"
    /\ retries \in 0..MaxRetries
    /\ retry_delay \in 1..MaxDelay
    /\ capture_output \in BOOLEAN
    /\ attempt = 0 /\ slept = <<>>
    /\ last_error = None /\ raised = None /\ result = None /\ outcomes = <<>>
    /\ NoCycle /\ NoScheduler
    /\ store = InitStore

\* one pass of the for loop of run_command, or what follows the loop
run_command ==
    /\ pc = "run_command"
    /\ IF in_range(attempt, retries)
       THEN \/ /\ outcomes' = Append(outcomes, "exit_0")
               /\ result' = IF capture_output THEN <<"stdout">> ELSE None
               /\ pc' = "returned"
               /\ UNCHANGED <<attempt, slept, last_error, raised>>
            \/ /\ outcomes' = Append(outcomes, "exit_nonzero")
               /\ last_error' = <<"CalledProcessError", attempt>>
               /\ IF retry_left(attempt, retries)
                  THEN /\ slept' = Append(slept, backoff_delay(retry_delay, attempt))
                       /\ attempt' = attempt + 1
                       /\ UNCHANGED <<pc, raised>>
                  ELSE /\ raised' = last_error'
                       /\ pc' = "raised"
                       /\ UNCHANGED <<attempt, slept>>
               /\ UNCHANGED result
            \/ /\ outcomes' = Append(outcomes, "not_run")
               /\ raised' = <<"OSError", attempt>>
               /\ pc' = "raised"
               /\ UNCHANGED <<attempt, slept, last_error, result>>
       ELSE /\ IF last_error # None
               THEN raised' = last_error /\ pc' = "raised"
               ELSE pc' = "returned" /\ UNCHANGED raised
            /\ UNCHANGED <<attempt, slept, last_error, result, outcomes>>
    /\ UNCHANGED <<retries, retry_delay, capture_output, cycle_vars, store,
                   entrypoint_vars, system_vars>>

RunCommandNext == run_command

RunCommandSpec == RunCommandInit /\ [][RunCommandNext]_vars

(***************************************************************************)
(* The scheduler: main() of entrypoint.py with its signal handler.  The    *)
(* cycle subprocess is followed from outside: it runs, takes time, and     *)
(* exits with 0 or 1.  The clock counts ticks of one sleep slice each.     *)
(***************************************************************************)
TicksPerDay == 4    \* ticks in a day
MaxDays == 2        \* the clock stops after this many days
MaxSignals == 2     \* termination signals delivered to the scheduler

Horizon == MaxDays * TicksPerDay

\* sleep_interval = 60: one tick of the clock
sleep_interval == 1

\* variant of get_next_run_time that compares with > instead of >=
get_next_run_time_late(clock, target_time) ==
    LET target_datetime == (clock \div TicksPerDay) * TicksPerDay + target_time
    IN  IF clock % TicksPerDay > target_time
        THEN target_datetime + TicksPerDay ELSE target_datetime

\* get_next_run_time: today at target_time, or tomorrow if that has passed
get_next_run_time(clock, target_time) ==
    LET target_datetime == (clock \div TicksPerDay) * TicksPerDay + target_time
    IN  IF clock % TicksPerDay >= target_time
        THEN target_datetime + TicksPerDay ELSE target_datetime

\* what get_state returns when no state file exists yet
DefaultState ==
    [status |-> "starting", last_backup_time |-> None,
     last_backup_status |-> None, total_backups |-> 0,
     total_failures |-> 0, current_operation |-> NoOperation,
     volumes_backed_up |-> 0, volumes_failed |-> 0, last_error |-> None]

CycleOpen ==
    status_log # <<>> /\ status_log[Len(status_log)] \notin {"idle", "error"}

\* update_state with a status among its keys
update_status(given) ==
    /\ update_state(given)
    /\ status_log' = IF CycleOpen THEN Append(status_log, given.status) ELSE status_log

sys_exit(code) == pc' = "exited" /\ exit_code' = code

settings == <<wakeup_time_str, wakeup_time, skip_first_run, required_settings>>
flags == <<shutdown_requested, backup_in_progress>>
timer == <<next_run, sleep_seconds, total_slept, asked_at>>
subprocess == <<child, returncode, cycles>>
\* what neither the scheduler nor the cycle subprocess seen by its writes touches
untouched == <<max_backups, sync_only, hist, locals, artifacts, remote, command_vars,
               settings>>
sched_frame == <<volumes, idx, counters, untouched, system_vars>>

SchedInit ==
    /\ pc = "main" /\ store = DefaultState
    /\ wakeup_time_str \in {"", "bad", "HH:MM"}
    /\ wakeup_time \in IF wakeup_time_str = "HH:MM" THEN 0..(TicksPerDay - 1) ELSE {0}
    /\ skip_first_run \in BOOLEAN
    /\ required_settings \in BOOLEAN
    /\ now \in 0..(TicksPerDay - 1)
    /\ shutdown_requested = FALSE /\ backup_in_progress = FALSE
    /\ next_run = None /\ sleep_seconds = 0 /\ total_slept = 0
    /\ child = "none" /\ returncode = 0 /\ cycles = 0 /\ signals = 0
    /\ asked_at = 0 /\ first_run_at = None /\ status_log = <<>>
    /\ response = None /\ handler_update = None
    /\ cycle_pc = "none" /\ cycle_update = None /\ main_update = None
    /\ NoCycle /\ NoCommand
    /\ attempt = 0 /\ slept = <<>>

\* main: the handlers are registered; the first write of the state
main_start ==
    /\ pc = "main"
    /\ update_status([status |-> "starting", backup_status |-> 0,
                      backup_time_until_next |-> 0])
    /\ pc' = "main_mode"
    /\ UNCHANGED <<exit_code, flags, now, timer, subprocess, signals, first_run_at,
                   sched_frame>>

\* main: WAKEUPTIME not set: run once; else parse it (parse_time exits with 1
\* when it is not HH:MM)
main_mode ==
    /\ pc = "main_mode"
    /\ IF wakeup_time_str = ""
       THEN /\ update_status([status |-> "running", backup_status |-> 1,
                              backup_time_until_next |-> 0])
            /\ pc' = "run_backup" /\ UNCHANGED exit_code
       ELSE IF wakeup_time_str = "bad"
       THEN sys_exit("1") /\ UNCHANGED <<store, status_log>>
       ELSE pc' = "first_run" /\ UNCHANGED <<exit_code, store, status_log>>
    /\ UNCHANGED <<flags, now, timer, subprocess, signals, first_run_at, sched_frame>>

\* variant of main_first_run that never runs at once
main_first_run_waits ==
    /\ pc = "first_run"
    /\ next_run' = <<get_next_run_time(now, wakeup_time)>>
    /\ asked_at' = now
    /\ update_status([status |-> "idle", backup_status |-> 0,
                      backup_time_until_next |-> next_run'[1] - now])
    /\ pc' = "main_loop"
    /\ first_run_at' = IF ~skip_first_run /\ now % TicksPerDay >= wakeup_time
                       THEN <<now>> ELSE None
    /\ UNCHANGED <<exit_code, flags, now, sleep_seconds, total_slept, subprocess,
                   signals, sched_frame>>

\* main: run at once when the wakeup time has passed and SKIPFIRSTRUN is off,
\* else announce the next run
main_first_run ==
    /\ pc = "first_run"
    /\ IF ~skip_first_run /\ now % TicksPerDay >= wakeup_time
       THEN /\ update_status([status |-> "idle", backup_status |-> 0,
                              backup_time_until_next |-> 0])
            /\ first_run_at' = <<now>>
            /\ pc' = "run_backup"
            /\ UNCHANGED <<next_run, asked_at>>
       ELSE /\ next_run' = <<get_next_run_time(now, wakeup_time)>>
            /\ asked_at' = now
            /\ update_status([status |-> "idle", backup_status |-> 0,
                              backup_time_until_next |-> next_run'[1] - now])
            /\ pc' = "main_loop"
            /\ UNCHANGED first_run_at
    /\ UNCHANGED <<exit_code, flags, now, sleep_seconds, total_slept, subprocess,
                   signals, sched_frame>>

\* the head of the while True loop: compute the next run and the time to sleep
main_loop ==
    /\ pc = "main_loop"
    /\ IF shutdown_requested
       THEN /\ update_status([status |-> "stopped"]) /\ sys_exit("0")
            /\ UNCHANGED timer
       ELSE /\ next_run' = <<get_next_run_time(now, wakeup_time)>>
            /\ asked_at' = now
            /\ sleep_seconds' = next_run'[1] - now
            /\ total_slept' = 0
            /\ pc' = "sleep"
            /\ UNCHANGED <<exit_code, store, status_log>>
    /\ UNCHANGED <<flags, now, subprocess, signals, first_run_at, sched_frame>>

\* one pass of the sleep loop, or its end: the cycle is due
main_sleep ==
    /\ pc = "sleep"
    /\ IF total_slept < sleep_seconds
       THEN IF shutdown_requested
            THEN /\ update_status([status |-> "stopped"]) /\ sys_exit("0")
                 /\ UNCHANGED <<now, total_slept>>
            ELSE LET interval == IF sleep_interval < sleep_seconds - total_slept
                                 THEN sleep_interval ELSE sleep_seconds - total_slept
                 IN  /\ now + interval <= Horizon
                     /\ update_state([backup_time_until_next |->
                                         sleep_seconds - total_slept])
                     /\ now' = now + interval
                     /\ total_slept' = total_slept + interval
                     /\ UNCHANGED <<pc, exit_code, status_log>>
       ELSE /\ pc' = IF ~shutdown_requested THEN "run_backup" ELSE "main_loop"
            /\ UNCHANGED <<exit_code, store, status_log, now, total_slept>>
    /\ UNCHANGED <<flags, next_run, sleep_seconds, asked_at, subprocess, signals,
                   first_run_at, sched_frame>>

\* run_backup: the state says running
run_backup_begin ==
    /\ pc = "run_backup"
    /\ update_state([status |-> "running", current_operation |-> <<"backup_cycle">>,
                     backup_status |-> 1, backup_time_until_next |-> 0])
    /\ status_log' = <<"running">>
    /\ pc' = "rb_flag"
    /\ UNCHANGED <<exit_code, flags, now, timer, subprocess, signals, first_run_at,
                   sched_frame>>

\* run_backup: backup_in_progress = True
run_backup_flag ==
    /\ pc = "rb_flag"
    /\ backup_in_progress' = TRUE
    /\ pc' = "rb_spawn"
    /\ UNCHANGED <<exit_code, store, status_log, shutdown_requested, now, timer,
                   subprocess, signals, first_run_at, sched_frame>>

\* run_backup: subprocess.run starts the cycle and waits for it
run_backup_spawn ==
    /\ pc = "rb_spawn"
    /\ child' = "running" /\ cycles' = cycles + 1
    /\ pc' = "rb_wait"
    /\ UNCHANGED <<exit_code, store, status_log, flags, now, timer, returncode,
                   signals, first_run_at, sched_frame>>

\* the cycle subprocess ends: 1 when a required setting is missing, else 0 or
\* 1 (an error that left its main)
cycle_subprocess ==
    /\ child = "running"
    /\ child' = "exited"
    /\ returncode' \in IF required_settings THEN {0, 1} ELSE {1}
    /\ UNCHANGED <<pc, exit_code, store, status_log, flags, now, timer, cycles,
                   signals, first_run_at, sched_frame>>

\* a tick passes while the cycle subprocess runs
time_passes ==
    /\ child = "running"
    /\ now < Horizon
    /\ now' = now + 1
    /\ UNCHANGED <<pc, exit_code, store, status_log, flags, timer, subprocess,
                   signals, first_run_at, sched_frame>>

\* run_backup: subprocess.run has returned or raised CalledProcessError; the
\* final state of the cycle is written
run_backup_result ==
    /\ pc = "rb_wait" /\ child = "exited"
    /\ IF returncode = 0
       THEN update_status([status |-> "idle", last_backup_status |-> <<"success">>,
                           last_backup_time |-> <<now>>,
                           current_operation |-> NoOperation,
                           total_backups |-> store.total_backups + 1,
                           backup_status |-> 0])
       ELSE update_status([status |-> "error", last_backup_status |-> <<"failed">>,
                           last_backup_time |-> <<now>>,
                           last_error |-> <<"Exit code 1">>,
                           current_operation |-> NoOperation,
                           total_failures |-> store.total_failures + 1,
                           backup_status |-> 0])
    /\ pc' = "rb_clear"
    /\ UNCHANGED <<exit_code, flags, now, timer, subprocess, signals, first_run_at,
                   sched_frame>>

\* run_backup: backup_in_progress = False before the return
run_backup_clear ==
    /\ pc = "rb_clear"
    /\ backup_in_progress' = FALSE
    /\ pc' = "rb_finally"
    /\ UNCHANGED <<exit_code, store, status_log, shutdown_requested, now, timer,
                   subprocess, signals, first_run_at, sched_frame>>

\* run_backup: the finally clause, then back in main
run_backup_finally ==
    /\ pc = "rb_finally"
    /\ backup_in_progress' = FALSE
    /\ IF shutdown_requested
       THEN update_status([status |-> "stopped"]) /\ sys_exit("0")
       ELSE /\ pc' = IF wakeup_time_str = "" THEN "once_done" ELSE "main_loop"
            /\ UNCHANGED <<exit_code, store, status_log>>
    /\ UNCHANGED <<shutdown_requested, now, timer, subprocess, signals, first_run_at,
                   sched_frame>>

\* variant of main_once_done without the return: main goes on into its loop
main_once_done_loops ==
    /\ pc = "once_done"
    /\ update_status([status |-> "completed", backup_status |-> 0,
                      backup_time_until_next |-> 0])
    /\ pc' = "main_loop"
    /\ UNCHANGED <<exit_code, flags, now, timer, subprocess, signals, first_run_at,
                   sched_frame>>

\* main, run once: the state says completed and main returns
main_once_done ==
    /\ pc = "once_done"
    /\ update_status([status |-> "completed", backup_status |-> 0,
                      backup_time_until_next |-> 0])
    /\ pc' = "returned" /\ exit_code' = "0"
    /\ UNCHANGED <<flags, now, timer, subprocess, signals, first_run_at, sched_frame>>

\* variant of signal_handler that exits at once whether a backup runs or not
signal_handler_always_exits ==
    /\ exit_code = "none" /\ signals < MaxSignals
    /\ signals' = signals + 1
    /\ update_status([status |-> "stopped"]) /\ sys_exit("0")
    /\ backup_in_progress' = FALSE
    /\ UNCHANGED <<shutdown_requested, now, timer, subprocess, first_run_at, sched_frame>>

\* variant of signal_handler that only sets the flag whether a backup runs or not
signal_handler_always_defers ==
    /\ exit_code = "none" /\ signals < MaxSignals
    /\ signals' = signals + 1
    /\ shutdown_requested' = TRUE
    /\ update_status([status |-> "shutting_down",
                      current_operation |-> <<"graceful_shutdown">>])
    /\ UNCHANGED <<pc, exit_code, backup_in_progress, now, timer, subprocess,
                   first_run_at, sched_frame>>

\* signal_handler, run between two statements of the scheduler: defer while a
\* backup is in progress, else write stopped and exit (the SystemExit passes
\* the finally clause of run_backup when it is raised inside it)
signal_handler ==
    /\ exit_code = "none" /\ signals < MaxSignals
    /\ signals' = signals + 1
    /\ IF backup_in_progress
       THEN /\ shutdown_requested' = TRUE
            /\ update_status([status |-> "shutting_down",
                              current_operation |-> <<"graceful_shutdown">>])
            /\ UNCHANGED <<pc, exit_code, backup_in_progress>>
       ELSE /\ update_status([status |-> "stopped"]) /\ sys_exit("0")
            /\ backup_in_progress' = FALSE
            /\ UNCHANGED shutdown_requested
    /\ UNCHANGED <<now, timer, subprocess, first_run_at, sched_frame>>

SchedNext ==
    \/ main_start
    \/ main_mode
    \/ main_first_run
    \/ main_loop
    \/ main_sleep
    \/ run_backup_begin
    \/ run_backup_flag
    \/ run_backup_spawn
    \/ cycle_subprocess
    \/ time_passes
    \/ run_backup_result
    \/ run_backup_clear
    \/ run_backup_finally
    \/ main_once_done
    \/ signal_handler

SchedSpec == SchedInit /\ [][SchedNext]_vars

(***************************************************************************)
(* The whole system: the scheduler, the cycle subprocess seen by its       *)
(* writes of the state record, and the health server.  Two processes call  *)
(* update_state while the other one runs (the cycle subprocess, and the    *)
(* signal handler of the scheduler); for them its read and its write are   *)
(* two steps.  The main thread of the scheduler writes only while no other *)
(* writer runs; its update_state in the sleep loop is two steps as well,   *)
(* since the health server reads the file from another thread meanwhile    *)
(* (its other writes are one step each, and a signal that falls inside the *)
(* rewrite is left out).  The health server only reads.  A request is      *)
(* answered in one step (get_state and the answer built from it); the step *)
(* after it sends the answer, and response is None again.                  *)
(***************************************************************************)
\* HOSTID, as the cycle and the health server both read it
HOSTID == "host"

\* the volume lists the cycle subprocess may load
CycleVolumes == {[i \in 1..n |-> IF i % 2 = 1 THEN VolA ELSE VolB] : n \in 0..MaxVolumes}

\* state.get(key, default)
Get(state, key, default) == IF key \in DOMAIN state THEN state[key] ELSE default

\* the state file between the open(STATE_FILE, 'w') of a writer and the end of
\* its with block: empty
Truncated == EmptyDict

\* get_state: the record in the file, or the defaults when json.load fails
get_state == IF DOMAIN store = {} THEN DefaultState ELSE store

\* update_state up to the end of get_state: the record read and the keys given
begin_update(given) == <<[state |-> get_state, given |-> given]>>

\* update_state from state.update(kwargs) on: the record that is written
written(update) ==
    [k \in DOMAIN update.state \cup DOMAIN update.given |->
        IF k \in DOMAIN update.given THEN update.given[k] ELSE update.state[k]]

\* HealthHandler.handle_health
handle_health(state) ==
    LET is_healthy == Get(state, "status", "None") # "error"
    IN  [code |-> IF is_healthy THEN 200 ELSE 503,
         body |-> [status |-> IF is_healthy THEN "healthy" ELSE "unhealthy",
                   current_operation |-> Get(state, "current_operation", NoOperation)]]

\* variant of handle_ready that takes starting for ready as well
handle_ready_eager(state) ==
    LET is_ready == Get(state, "status", "None") \in
                       {"starting", "idle", "running", "completed"}
    IN  [code |-> IF is_ready THEN 200 ELSE 503, body |-> [ready |-> is_ready]]

\* HealthHandler.handle_ready
handle_ready(state) ==
    LET is_ready == Get(state, "status", "None") \in {"idle", "running", "completed"}
    IN  [code |-> IF is_ready THEN 200 ELSE 503, body |-> [ready |-> is_ready]]

\* datetime.fromisoformat(...).timestamp() of the time written at a tick of the
\* clock: seconds since the epoch, never 0
timestamp(tick) == tick + 1

\* HealthHandler.handle_metrics: the counters, the gauges of the last cycle and
\* backup_last_success_timestamp, each with its backuphost label (durations,
\* sizes and the uptime are left out)
handle_metrics(state) ==
    LET metric(key) == [backuphost |-> HOSTID, value |-> Get(state, key, 0)]
        last_success == Get(state, "last_backup_time", None)
    IN  [code |-> 200,
         body |-> [backup_total_count |-> metric("total_backups"),
                   backup_failure_count |-> metric("total_failures"),
                   backup_volumes_success |-> metric("volumes_backed_up"),
                   backup_volumes_failed |-> metric("volumes_failed"),
                   backup_last_success_timestamp |->
                      [backuphost |-> HOSTID,
                       value |-> IF last_success # None
                                 THEN timestamp(last_success[1]) ELSE 0]]]

Paths == {"/health", "/ready", "/metrics", "/"}

\* what do_GET answers to a request for path when it reads state
Answer(path, state) ==
    LET r == IF path = "/health" THEN handle_health(state)
             ELSE IF path = "/metrics" THEN handle_metrics(state)
             ELSE IF path = "/ready" THEN handle_ready(state)
             ELSE [code |-> 404, body |-> [error |-> "Not Found"]]
    IN  [path |-> path, code |-> r.code, body |-> r.body]

\* variant of do_GET whose handler notes the request in the state record
do_GET_notes ==
    /\ pc # "main" /\ exit_code = "none" /\ response = None
    /\ \E path \in Paths : response' = <<Answer(path, get_state)>>
    /\ update_state([last_request |-> response'[1].path])
    /\ UNCHANGED <<pc, exit_code, status_log, flags, now, timer, subprocess, signals,
                   first_run_at, volumes, idx, counters, untouched, handler_update,
                   cycle_pc, cycle_update,
                   main_update>>

\* HealthHandler.do_GET in the thread start_health_server started: one request
\* is answered from what get_state reads
do_GET ==
    /\ pc # "main" /\ exit_code = "none" /\ response = None
    /\ \E path \in Paths : response' = <<Answer(path, get_state)>>
    /\ UNCHANGED <<pc, exit_code, store, status_log, flags, now, timer, subprocess,
                   signals, first_run_at, volumes, idx, counters, untouched,
                   handler_update, cycle_pc, cycle_update,
                   main_update>>

\* send_json_response, or the last lines of handle_metrics: the answer leaves
send_response ==
    /\ response # None
    /\ response' = None
    /\ UNCHANGED <<pc, exit_code, store, status_log, flags, now, timer, subprocess,
                   signals, first_run_at, volumes, idx, counters, untouched,
                   handler_update, cycle_pc, cycle_update,
                   main_update>>

\* signal_handler while the cycle subprocess may write the record: with a
\* backup in progress, the handler up to the get_state of its update_state;
\* with none, the whole handler
signal_handler_get_state ==
    /\ response = None
    /\ exit_code = "none" /\ signals < MaxSignals /\ handler_update = None
    /\ main_update = None
    /\ signals' = signals + 1
    /\ IF backup_in_progress
       THEN /\ shutdown_requested' = TRUE
            /\ handler_update' =
                  begin_update([status |-> "shutting_down",
                                current_operation |-> <<"graceful_shutdown">>])
            /\ UNCHANGED <<pc, exit_code, backup_in_progress, store, status_log>>
       ELSE /\ update_status([status |-> "stopped"]) /\ sys_exit("0")
            /\ backup_in_progress' = FALSE
            /\ UNCHANGED <<shutdown_requested, handler_update>>
    /\ UNCHANGED <<now, timer, subprocess, first_run_at, volumes, idx, counters,
                   untouched, response, cycle_pc, cycle_update,
                   main_update>>

\* the rest of that update_state: the record the handler read is written back
\* with its two keys, and the handler returns (the write is one step, taken
\* while the cycle subprocess does not hold the file open: what a reader finds
\* in the file while the handler rewrites it is left out)
signal_handler_write ==
    /\ response = None
    /\ handler_update # None /\ cycle_update = None
    /\ store' = written(handler_update[1])
    /\ status_log' = IF CycleOpen THEN Append(status_log, "shutting_down")
                     ELSE status_log
    /\ handler_update' = None
    /\ UNCHANGED <<pc, exit_code, flags, now, timer, subprocess, signals, first_run_at,
                   volumes, idx, counters, untouched, response, cycle_pc, cycle_update,
                   main_update>>

\* the cycle subprocess, main() of backups_n_sync.py up to its loop: the
\* counters start at 0 and the volume list is read
cycle_read_volumes ==
    /\ response = None
    /\ child = "running" /\ cycle_pc = "none" /\ required_settings
    /\ volumes' \in CycleVolumes /\ idx' = 1
    /\ volumes_success' = 0 /\ volumes_failed' = 0
    /\ failed_volumes' = <<>> /\ successful_volumes' = <<>>
    /\ volume_states' = EmptyDict
    /\ cycle_pc' = "loop"
    /\ UNCHANGED <<pc, exit_code, store, status_log, flags, now, timer, subprocess,
                   signals, first_run_at, untouched, response, handler_update,
                   cycle_update,
                   main_update>>

\* the head of the for loop: update_state(current_operation=...) begins for
\* the next volume, or, after the last one, the update_state of the summary.
\* An update_state of the cycle subprocess begins with its get_state and its
\* open(STATE_FILE, 'w'), which empties the file, in one step (an update of
\* the handler that falls between the two is left out).
cycle_for_volume ==
    /\ response = None
    /\ child = "running" /\ cycle_pc = "loop" /\ cycle_update = None
    /\ store' = Truncated
    /\ IF idx <= Len(volumes)
       THEN /\ cycle_update' = begin_update([current_operation |-> <<"backing_up", volume>>])
            /\ cycle_pc' = "volume"
       ELSE /\ cycle_update' =
                  begin_update(
                     [volumes_backed_up |-> volumes_success,
                      volumes_failed |-> volumes_failed,
                      current_operation |-> NoOperation,
                      last_error |-> IF failed_volumes = <<>> THEN None
                                     ELSE <<failed_volumes[Len(failed_volumes)].error>>,
                      volume_states |-> volume_states,
                      last_verification |-> successful_volumes])
            /\ cycle_pc' = "summary"
    /\ UNCHANGED <<pc, exit_code, status_log, flags, now, timer, subprocess,
                   signals, first_run_at, volumes, idx, counters, untouched, response,
                   handler_update,
                   main_update>>

\* variant of cycle_volume that starts the next volume before it has recorded
\* the outcome of this one
cycle_volume_unrecorded ==
    /\ response = None
    /\ child = "running" /\ cycle_pc = "volume" /\ cycle_update = None
    /\ idx' = idx + 1 /\ cycle_pc' = "loop"
    /\ UNCHANGED <<pc, exit_code, store, status_log, flags, now, timer, subprocess,
                   signals, first_run_at, volumes, counters, cycle_update, untouched,
                   response, handler_update,
                   main_update>>

\* the body of the loop for one volume: it succeeds or it fails (a skipped
\* volume is counted as a failed one); the outcome is counted, its update_state
\* begins, and the loop continues
cycle_volume ==
    /\ response = None
    /\ child = "running" /\ cycle_pc = "volume" /\ cycle_update = None
    /\ store' = Truncated
    /\ \/ /\ volumes_success' = volumes_success + 1
          /\ successful_volumes' =
                Append(successful_volumes,
                       [volume |-> volume, rclone_check |-> TRUE, test_restore |-> TRUE])
          /\ volume_states' = DictSet(volume_states, volume, 0)
          /\ UNCHANGED <<volumes_failed, failed_volumes>>
       \/ \E failure \in {<<"Upload failed", 1>>} :
             /\ volumes_failed' = volumes_failed + 1
             /\ failed_volumes' =
                   Append(failed_volumes, [volume |-> volume, error |-> failure[1]])
             /\ volume_states' = DictSet(volume_states, volume, failure[2])
             /\ UNCHANGED <<volumes_success, successful_volumes>>
    /\ cycle_update' = begin_update([volumes_backed_up |-> volumes_success',
                                     volumes_failed |-> volumes_failed',
                                     volume_states |-> volume_states'])
    /\ idx' = idx + 1 /\ cycle_pc' = "loop"
    /\ UNCHANGED <<pc, exit_code, status_log, flags, now, timer, subprocess,
                   signals, first_run_at, volumes, untouched, response, handler_update,
                   main_update>>

\* the rest of an update_state of the cycle subprocess: json.dump and the end
\* of the with block; the record it read is in the file with the keys given
cycle_update_state ==
    /\ response = None
    /\ child = "running" /\ cycle_update # None
    /\ store' = written(cycle_update[1])
    /\ cycle_update' = None
    /\ UNCHANGED <<pc, exit_code, status_log, flags, now, timer, subprocess, signals,
                   first_run_at, volumes, idx, counters, untouched, response,
                   handler_update, cycle_pc,
                   main_update>>

\* variant of cycle_exit whose main exits with 1 after the summary when a
\* volume has failed
cycle_exit_strict ==
    /\ response = None
    /\ child = "running" /\ cycle_update = None
    /\ \/ cycle_pc = "summary" /\ returncode' = (IF volumes_failed > 0 THEN 1 ELSE 0)
       \/ cycle_pc = "none" /\ returncode' = 1
    /\ child' = "exited" /\ cycle_pc' = "none"
    /\ UNCHANGED <<pc, exit_code, store, status_log, flags, now, timer, cycles, signals,
                   first_run_at, volumes, idx, counters, untouched, response,
                   handler_update, cycle_update,
                   main_update>>

\* the cycle subprocess ends: its main returns after the summary, or it exits
\* with 1 before the loop (a required setting or the volume list is missing)
cycle_exit ==
    /\ response = None
    /\ child = "running" /\ cycle_update = None
    /\ \/ cycle_pc = "summary" /\ returncode' = 0
       \/ cycle_pc = "none" /\ returncode' = 1
    /\ child' = "exited" /\ cycle_pc' = "none"
    /\ UNCHANGED <<pc, exit_code, store, status_log, flags, now, timer, cycles, signals,
                   first_run_at, volumes, idx, counters, untouched, response,
                   handler_update, cycle_update,
                   main_update>>

\* a pass of the sleep loop up to the open(STATE_FILE, 'w') of its
\* update_state(backup_time_until_next=...): the record is read and the file
\* is emptied; the health server, a thread of the same process, may read the
\* file before the pass goes on
main_sleep_open ==
    /\ pc = "sleep" /\ main_update = None
    /\ total_slept < sleep_seconds /\ ~shutdown_requested
    /\ LET interval == IF sleep_interval < sleep_seconds - total_slept
                       THEN sleep_interval ELSE sleep_seconds - total_slept
       IN  now + interval <= Horizon
    /\ main_update' = begin_update([backup_time_until_next |->
                                       sleep_seconds - total_slept])
    /\ store' = Truncated
    /\ UNCHANGED <<pc, exit_code, status_log, flags, now, timer, subprocess, signals,
                   first_run_at, volumes, idx, counters, untouched, response,
                   handler_update, cycle_pc, cycle_update>>

\* the rest of that pass: json.dump and the end of the with block, then
\* time.sleep(interval) and total_slept += interval
main_sleep_write ==
    /\ pc = "sleep" /\ main_update # None
    /\ store' = written(main_update[1])
    /\ main_update' = None
    /\ LET interval == IF sleep_interval < sleep_seconds - total_slept
                       THEN sleep_interval ELSE sleep_seconds - total_slept
       IN  now' = now + interval /\ total_slept' = total_slept + interval
    /\ UNCHANGED <<pc, exit_code, status_log, flags, next_run, sleep_seconds, asked_at,
                   subprocess, signals, first_run_at, volumes, idx, counters,
                   untouched, response, handler_update, cycle_pc, cycle_update>>

\* a step of the main thread of the scheduler, which the handler suspends; of
\* main_sleep, whose pass through the loop is the two steps above, the exits
\* of the loop are taken here
main_thread ==
    /\ response = None
    /\ handler_update = None
    /\ \/ main_start
       \/ main_mode
       \/ main_first_run
       \/ main_loop
       \/ (total_slept >= sleep_seconds \/ shutdown_requested) /\ main_sleep
       \/ main_sleep_open
       \/ main_sleep_write
       \/ run_backup_begin
       \/ run_backup_flag
       \/ run_backup_spawn
       \/ run_backup_result
       \/ run_backup_clear
       \/ run_backup_finally
       \/ main_once_done

\* the scheduler starts at tick 0 of a day with its wakeup time at tick 0, run
\* once or scheduled with SKIPFIRSTRUN on, and the settings of the cycle in place
SystemInit ==
    /\ SchedInit
    /\ wakeup_time_str # "bad"
    /\ now = 0 /\ wakeup_time = 0
    /\ skip_first_run = (wakeup_time_str # "")
    /\ required_settings

SystemNext ==
    \/ main_thread
    \/ signal_handler_get_state
    \/ signal_handler_write
    \/ cycle_read_volumes
    \/ cycle_for_volume
    \/ cycle_volume
    \/ cycle_update_state
    \/ cycle_exit
    \/ do_GET
    \/ send_response

SystemSpec == SystemInit /\ [][SystemNext]_vars

(***************************************************************************)
(* Properties.  The date a name was written from is read off Dated, not    *)
(* parsed, so that the parser and the sort are checked against it.         *)
(***************************************************************************)
Min(a, b) == IF a < b THEN a ELSE b
Max(a, b) == IF a > b THEN a ELSE b

WrittenDates ==
    [f \in DatedEntries |-> (CHOOSE p \in Dated : DatedName(p[1], p[2]) = f)[2]]

WrittenDate(f) == IF f \in DOMAIN WrittenDates THEN WrittenDates[f] ELSE None

DatedIn(fs) == {f \in Range(fs) : WrittenDate(f) # None}

\* the entries of fs that have fewer than n entries newer than themselves
NewestOf(fs, n) ==
    {f \in DatedIn(fs) :
        Cardinality({g \in DatedIn(fs) : DateLess(WrittenDate(f), WrittenDate(g))}) < n}

DistinctDates(fs) ==
    \A f, g \in DatedIn(fs) : f # g => WrittenDate(f) # WrittenDate(g)

\* apply_retention_policy has listed a non-empty directory and run its loop
RetentionDone == pc = "retention_return" /\ files # <<>>

\* one order of the entries S, the same whatever order they were listed in
SomeOrder(S) == CHOOSE o \in Orders(S) : TRUE

\* the files sent to rclone delete are the dated entries outside the n newest,
\* the n newest stay in the directory, and the listing selects the same files
\* as the same entries listed in one fixed order (so every two orders agree)
KeepsNewest ==
    /\ Range(removed) = DatedIn(files) \ NewestOf(files, max_backups)
    /\ NewestOf(files, max_backups) \subseteq remote
    /\ deletion_errors = <<>> =>
          remote \cap DatedIn(files) = NewestOf(files, max_backups)
    /\ Range(RemovedFiles(SomeOrder(Range(files)), max_backups)) = Range(removed)

\* C8 as stated: for any listing of dated entries and any maxKeep = N,
\* retention keeps exactly the N newest entries by date and deletes all the
\* others, whatever the order of the listing.
C8_KeepsNewestAnyListing == RetentionDone => KeepsNewest

\* C8 amended: the same, for listings whose dated entries carry pairwise
\* distinct dates; among entries of the same date the listing order decides.
C8_KeepsNewestDistinctDates ==
    RetentionDone /\ DistinctDates(files) => KeepsNewest

\* C8 witness: three dated entries of distinct dates, listed oldest first,
\* one kept and two deleted.
C8_Witness ==
    /\ RetentionDone /\ DistinctDates(files)
    /\ Len(files) = 3 /\ DatedIn(files) = Range(files)
    /\ DateLess(WrittenDate(files[1]), WrittenDate(files[2]))
    /\ DateLess(WrittenDate(files[2]), WrittenDate(files[3]))
    /\ max_backups = 1 /\ Len(removed) = 2

\* C9: an entry whose name carries no parseable date is never sent to
\* deletion, stays in the directory, and takes none of the maxKeep places:
\* of the dated entries, min(maxKeep, their number) are kept.
C9_UndatedUntouched ==
    RetentionDone =>
       /\ \A f \in Range(files) :
             WrittenDate(f) = None => f \notin Range(removed) /\ f \in remote
       /\ Cardinality(DatedIn(files) \ Range(removed)) =
             Min(Max(max_backups, 0), Cardinality(DatedIn(files)))

\* C9 witness: a listing with an 8-digit field that is no calendar date, next
\* to two dated entries of which one is deleted.
C9_Witness ==
    /\ RetentionDone
    /\ Range(files) \cap InvalidDateEntries # {}
    /\ max_backups = 1 /\ Len(removed) = 1

\* C10 as stated: the number of entries deleted is at most the number listed
\* and at most count - maxKeep, also when maxKeep exceeds count.
C10_DeletesAtMostCountMinusKeep ==
    RetentionDone =>
       /\ Len(removed) <= Len(files)
       /\ Len(removed) <= Len(files) - max_backups

\* C10 amended: the number of entries deleted is at most the number listed and
\* at most max(0, count - maxKeep).
C10_DeletesAtMostExcess ==
    RetentionDone =>
       /\ Len(removed) <= Len(files)
       /\ Len(removed) <= Max(0, Len(files) - max_backups)

\* C10 witness: the bound is reached, two of three entries are deleted.
C10_Witness ==
    /\ RetentionDone
    /\ max_backups = 1 /\ Len(files) = 3 /\ Len(removed) = 2

\* the volume whose events hist holds once its pass through the loop body is
\* over: the one before idx after a continue, the one at idx after a crash
VolumeOver ==
    \/ pc \in {"loop", "summary", "run_postscript", "done"} /\ idx > 1
    \/ pc = "crashed"
LastVolume == IF pc = "crashed" THEN volumes[idx] ELSE volumes[idx - 1]
LastFailure == failed_volumes[Len(failed_volumes)]

\* C1: a failure inside one volume's processing is caught, recorded with a
\* reason for that volume, its local artifact is removed and the loop goes on:
\* the cycle never ends inside a volume, and a cycle that loaded a list ends
\* with every volume of it processed.
C1_FailureIsolated ==
    /\ pc # "crashed"
    /\ pc = "done" /\ ~sync_only => idx = Len(volumes) + 1
    /\ VolumeOver /\ "recorded_failed" \in hist =>
          /\ LastFailure.volume = LastVolume
          /\ LastVolume \notin artifacts

\* C2: every listed volume is counted in exactly one outcome: after k volumes
\* the counters sum to k, at the end of the cycle they sum to the length of
\* the list, and the stored metrics carry the same sum.
C2_OutcomesConserved ==
    /\ Len(successful_volumes) = volumes_success
    /\ Len(failed_volumes) = volumes_failed
    /\ pc \in {"loop", "summary", "run_postscript", "done"} =>
          volumes_success + volumes_failed = idx - 1
    /\ pc \in {"summary", "run_postscript", "done"} =>
          volumes_success + volumes_failed = Len(volumes)
    /\ pc \in {"run_postscript", "done"} =>
          store.volumes_backed_up + store.volumes_failed = Len(volumes)

\* C2 witness: a cycle of two volumes has ended, one succeeded and one did not.
C2_Witness ==
    /\ pc = "done" /\ Len(volumes) = 2
    /\ volumes_success = 1 /\ volumes_failed = 1

\* C3: when create_backup fails for a volume, no upload, verification,
\* retention or postscript is attempted for it, and once the failure has been
\* handled the volume is recorded failed (state 1) and no local artifact of it
\* is left.
C3_ArchiveFailureContained ==
    "archive_failed" \in hist =>
       /\ hist \cap {"upload_called", "verify_called", "retention_called",
                     "postscript_called"} = {}
       /\ pc # "except_creation" =>
             /\ "recorded_failed" \in hist
             /\ volume_states[LastVolume] = 1
             /\ LastVolume \notin artifacts

\* C4: a volume whose source directory is absent is recorded skipped (state 2)
\* with that reason, and nothing else happens for it: no prescript, archive,
\* upload or retention, and no artifact.
C4_MissingSourceSkipped ==
    "source_missing" \in hist =>
       /\ hist = {"source_missing", "recorded_skipped"}
       /\ VolumeOver /\ pc # "crashed"
       /\ volume_states[LastVolume] = 2
       /\ LastFailure = [volume |-> LastVolume, error |-> "Directory does not exist"]
       /\ LastVolume \notin artifacts

\* C4 witness: the first of two volumes has no source directory and the loop is
\* about to start the second.
C4_Witness ==
    /\ pc = "loop" /\ idx = 2 /\ Len(volumes) = 2
    /\ "source_missing" \in hist

\* C5: when the upload fails on each of its 4 attempts (after waiting 2, 4 and
\* 8 seconds), neither retention nor the volume postscript runs, and once the
\* failure has been handled the volume is recorded failed and its local
\* artifact is removed.
C5_UploadExhaustionContained ==
    "upload_exhausted" \in hist =>
       /\ hist \cap {"upload_ok", "retention_called", "postscript_called"} = {}
       /\ pc = "except_rclone" =>
             attempt + 1 = 4 /\ slept = <<2, 4, 8>>
       /\ pc # "except_rclone" =>
             /\ "recorded_failed" \in hist
             /\ volume_states[LastVolume] = 1
             /\ LastFailure = [volume |-> LastVolume, error |-> "Upload failed"]
             /\ LastVolume \notin artifacts

\* C6: retention runs for a volume only after that volume's upload has
\* succeeded in the same pass; where the upload did not succeed, nothing is
\* sent to deletion and no remote entry disappears.
C6_RetentionAfterUpload ==
    /\ pc \in {"retention", "retention_return"} => "upload_ok" \in hist
    /\ "retention_called" \in hist => "upload_ok" \in hist
    /\ "upload_ok" \notin hist =>
          "remote_deleted" \notin hist /\ removed = <<>>

\* C6 witness: retention has deleted a remote entry after a successful upload.
C6_Witness ==
    /\ pc = "retention_return"
    /\ "upload_ok" \in hist /\ "remote_deleted" \in hist
    /\ removed # <<>>

\* C7: at any moment at most one local artifact exists, none exists when the
\* next volume starts, and none exists after the cycle has ended.
C7_ArtifactLifetime ==
    /\ Cardinality(artifacts) <= 1
    /\ pc \in {"loop", "summary", "run_postscript", "done", "crashed"} =>
          artifacts = {}

\* C11: a remote deletion that fails is collected as a warning: every entry
\* outside the kept ones is still sent to deletion and the ones that did not
\* fail are gone, the volume goes on to be recorded as succeeded, and the
\* cycle process does not fail because of it.
C11_DeletionFailureIsWarning ==
    /\ pc = "retention_return" =>
          /\ Len(removed) = Max(0, Len(backups_with_dates(files)) - Max(max_backups, 0))
          /\ Range(deletion_errors) \subseteq Range(removed)
          /\ remote \cap Range(removed) = Range(deletion_errors)
    /\ "deletion_failed" \in hist =>
          /\ pc \notin {"except_creation", "except_rclone", "except_generic",
                        "crashed", "exited"}
          /\ "recorded_failed" \notin hist
          /\ exit_code # "1"
          /\ VolumeOver => "recorded_success" \in hist /\ volume_states[LastVolume] = 0

\* C11 witness: the volume whose retention pass had a failed deletion followed
\* by a successful one has been recorded as succeeded.
C11_Witness ==
    /\ pc = "loop"
    /\ {"deletion_failed", "deleted_after_failure", "recorded_success"} \subseteq hist

\* every attempt of the call so far has exited non-zero
AlwaysFailing == \A i \in 1..Len(outcomes) : outcomes[i] = "exit_nonzero"

\* C12: run_command with retries = r against a command that fails on every
\* attempt makes exactly r + 1 attempts and then raises the error captured
\* from the last of them; it never makes more than r + 1 attempts.
C12_AttemptsThenLastError ==
    /\ Len(outcomes) <= retries + 1
    /\ AlwaysFailing /\ pc # "run_command" =>
          /\ pc = "raised"
          /\ Len(outcomes) = retries + 1
          /\ raised = <<"CalledProcessError", Len(outcomes) - 1>>
          /\ raised = last_error

\* C12 witness: retries = 3, four failed attempts, the error of the fourth raised.
C12_Witness ==
    /\ pc = "raised" /\ retries = 3 /\ AlwaysFailing
    /\ Len(outcomes) = 4 /\ raised = <<"CalledProcessError", 3>>

\* C13: the delay waited after failed attempt i (from 0) is retry_delay * 2^i
\* exactly, one delay between two consecutive attempts and none after the
\* last attempt of the call.
C13_BackoffDelays ==
    /\ \A i \in 1..Len(slept) : slept[i] = retry_delay * 2 ^ (i - 1)
    /\ pc = "run_command" => Len(slept) = Len(outcomes)
    /\ pc # "run_command" /\ outcomes # <<>> => Len(slept) = Len(outcomes) - 1

\* C13 witness: retries = 3 and a base delay of 2: waits of 2, 4 and 8, then
\* the error is raised with no fourth wait.
C13_Witness ==
    /\ pc = "raised" /\ retries = 3 /\ retry_delay = 2
    /\ Len(outcomes) = 4 /\ slept = <<2, 4, 8>>

\* the final state of the latest cycle has been written by run_backup
FinalStateWritten ==
    /\ store.last_backup_status = IF returncode = 0 THEN <<"success">> ELSE <<"failed">>
    /\ store.total_backups + store.total_failures = cycles
    /\ status_log # <<>> /\ status_log[Len(status_log)] \in {"idle", "error"}

\* C14: a termination signal during a cycle does not abort it: the scheduler
\* never exits while the cycle subprocess runs, after the signal it starts
\* nothing else, and when it exits (with 0, status stopped) the subprocess
\* has ended and the cycle's final state has been written.
C14_SignalDefersExit ==
    /\ child = "running" => exit_code = "none" /\ backup_in_progress
    /\ shutdown_requested =>
          pc \in {"rb_spawn", "rb_wait", "rb_clear", "rb_finally", "exited"}
    /\ shutdown_requested /\ exit_code # "none" =>
          /\ child = "exited" /\ FinalStateWritten
          /\ exit_code = "0" /\ store.status = "stopped"

\* C14 witness: the scheduler has exited after a signal that arrived during a
\* cycle that failed: running, shutting_down, error, then stopped.
C14_Witness ==
    /\ exit_code = "0" /\ shutdown_requested /\ signals = 1
    /\ status_log = <<"running", "shutting_down", "error">>
    /\ store.status = "stopped" /\ store.total_failures = 1

\* C15: a termination signal handled while no backup is in progress makes the
\* process exit in that very step with status stopped and exit code 0, and
\* once the process has exited no cycle starts.
C15_IdleSignalExitsAtOnce ==
    [][/\ signals' = signals + 1 /\ ~backup_in_progress =>
             /\ pc' = "exited" /\ exit_code' = "0"
             /\ store'.status = "stopped"
             /\ subprocess' = subprocess
       /\ exit_code # "none" => subprocess' = subprocess]_vars

\* C15 witness: the process has exited on a signal that arrived in the middle
\* of the sleep that followed a first cycle.
C15_Witness ==
    /\ pc = "exited" /\ exit_code = "0" /\ store.status = "stopped"
    /\ signals = 1 /\ ~shutdown_requested
    /\ cycles = 1 /\ 0 < total_slept /\ total_slept < sleep_seconds

\* the next run has been computed for the first time after a cycle that main
\* started at once
FirstNextRun == first_run_at # None /\ next_run # None /\ cycles = 1
FollowingDay == (first_run_at[1] \div TicksPerDay + 1) * TicksPerDay + wakeup_time

\* main started the cycle at once: nothing was computed or slept before it
RanAtOnce ==
    first_run_at # None =>
       /\ ~skip_first_run /\ first_run_at[1] % TicksPerDay >= wakeup_time
       /\ cycles = 0 =>
             /\ pc \in {"run_backup", "rb_flag", "rb_spawn", "exited"}
             /\ next_run = None /\ total_slept = 0

\* C16 as stated: with skipFirstRun off and a start at or after the wakeup
\* time, a cycle fires at once, and the next run computed after it is the
\* wakeup time of the day after the start.
C16_NextRunFollowingDay ==
    /\ RanAtOnce
    /\ FirstNextRun => next_run[1] = FollowingDay

\* C16 amended: the next run computed after that cycle is the first wakeup
\* time after the cycle's end, which is the wakeup time of the day after the
\* start whenever the cycle ended before it.
C16_NextRunAfterCycle ==
    /\ RanAtOnce
    /\ FirstNextRun =>
          /\ next_run[1] % TicksPerDay = wakeup_time
          /\ asked_at < next_run[1] /\ next_run[1] <= asked_at + TicksPerDay
          /\ asked_at < FollowingDay => next_run[1] = FollowingDay

\* C16 witness: the cycle started at once took time and ended on the day of
\* the start; the next run is the wakeup time of the following day.
C16_Witness ==
    /\ FirstNextRun /\ pc = "sleep"
    /\ asked_at > first_run_at[1]
    /\ asked_at \div TicksPerDay = first_run_at[1] \div TicksPerDay
    /\ next_run[1] = FollowingDay

\* C17: get_next_run_time returns the target time of tomorrow when the time
\* of day is at or after the target and of today otherwise, so its result is
\* strictly later than the time it read and at most one day ahead.
C17_NextRunTime ==
    next_run # None =>
       LET day == asked_at \div TicksPerDay
           due == IF asked_at % TicksPerDay >= wakeup_time THEN day + 1 ELSE day
       IN  /\ next_run[1] = due * TicksPerDay + wakeup_time
           /\ asked_at < next_run[1]
           /\ next_run[1] - asked_at <= TicksPerDay

\* C17 witness: asked exactly at the target time, the answer is one full day ahead.
C17_Witness ==
    /\ next_run # None
    /\ asked_at % TicksPerDay = wakeup_time
    /\ next_run[1] = asked_at + TicksPerDay

\* C18: with WAKEUPTIME not set the scheduler starts at most one cycle, never
\* computes a next run nor sleeps, exits only with code 0, and when main
\* returns exactly one cycle has run and the status is completed.
C18_RunOnce ==
    wakeup_time_str = "" =>
       /\ cycles <= 1
       /\ pc \notin {"first_run", "main_loop", "sleep"}
       /\ next_run = None /\ total_slept = 0
       /\ exit_code \in {"none", "0"}
       /\ pc = "returned" =>
             /\ cycles = 1 /\ child = "exited"
             /\ exit_code = "0" /\ store.status = "completed"

\* C18 witness: main has returned after its one cycle.
C18_Witness ==
    /\ wakeup_time_str = "" /\ pc = "returned" /\ exit_code = "0"
    /\ cycles = 1 /\ returncode = 0 /\ signals = 0

\* C19: a missing required setting is fatal: the cycle exits non-zero, and
\* once the scheduler has dealt with that cycle (no signal having arrived) the
\* program has exited with a non-zero code, in either mode.
C19_MissingSettingIsFatal ==
    ~required_settings /\ child = "exited" =>
       /\ returncode # 0
       /\ signals = 0 =>
             \/ pc \in {"rb_wait", "rb_clear", "rb_finally", "once_done"}
             \/ pc \in {"exited", "returned"} /\ exit_code = "1"

\* C20: once run_backup has written running and the cycle subprocess exists,
\* the only status values written until the cycle ends are idle or error.
C20_StatusMonotonic ==
    child # "none" /\ status_log # <<>> =>
       /\ status_log[1] = "running"
       /\ \A i \in 2..Len(status_log) : status_log[i] \in {"idle", "error"}

\* the entry of successful_volumes written for the volume just recorded
LastSuccess == successful_volumes[Len(successful_volumes)]

\* the comparison of verify_rclone has failed for the volume of hist
VerificationFailed == "verify_failed" \in hist

\* what is true of a volume whose workflow went on to the end after the
\* verification failed
VerifiedFalseSucceeded ==
    /\ pc \notin {"except_creation", "except_rclone", "except_generic", "crashed",
                  "exited"}
    /\ "recorded_failed" \notin hist
    /\ VolumeOver =>
          /\ {"artifact_removed", "retention_called", "postscript_called",
              "recorded_success"} \subseteq hist
          /\ volume_states[LastVolume] = 0
          /\ LastSuccess.volume = LastVolume /\ LastSuccess.rclone_check = FALSE

C23_PrescriptFailureSkips ==
    /\ "prescript_failed" \in hist =>
          /\ hist = {"source_present", "prescript_called", "prescript_failed",
                     "recorded_skipped"}
          /\ VolumeOver /\ pc # "crashed"
          /\ volume_states[LastVolume] = 2
          /\ LastFailure = [volume |-> LastVolume, error |-> "Volume prescript failed"]
          /\ LastVolume \notin artifacts
    /\ "prescript_absent" \in hist =>
          /\ hist \cap {"prescript_called", "prescript_failed", "recorded_skipped"} = {}
          /\ pc = "create_backup" \/ "archive_called" \in hist

\* C23 witness: the first volume was skipped for its prescript, the second has
\* no prescript and its archive has been created.
C23_Witness ==
    /\ pc = "calculate_sha256" /\ idx = 2
    /\ {"prescript_absent", "archive_created"} \subseteq hist
    /\ volume_states[volumes[1]] = 2
    /\ failed_volumes[1].error = "Volume prescript failed"

\* C24: the volume postscript runs only after the upload has succeeded, the
\* local artifact is gone and retention has run, and whether it fails or not
\* the next thing that happens is that the volume is recorded as succeeded.
C24_PostscriptBestEffort ==
    /\ pc = "volume_postscript" \/ "postscript_called" \in hist =>
          /\ {"upload_ok", "retention_called"} \subseteq hist
          /\ "recorded_failed" \notin hist
          /\ ~VolumeOver => volume \notin artifacts
    /\ "postscript_called" \in hist =>
          /\ pc \in {"track_success", "loop", "summary", "run_postscript", "done"}
          /\ VolumeOver =>
                /\ "recorded_success" \in hist
                /\ volume_states[LastVolume] = 0
                /\ LastSuccess.volume = LastVolume

\* C24 witness: the volume whose postscript failed has been recorded as succeeded.
C24_Witness ==
    /\ pc = "loop"
    /\ {"postscript_failed", "recorded_success"} \subseteq hist
    /\ volume_states[LastVolume] = 0

\* C27: while the shutdown is deferred and the cycle subprocess still runs, a
\* further termination signal can make the process exit at once: in every
\* such state the handler has a step that ends the process.
C27_SecondSignalMayForceExit ==
    shutdown_requested /\ backup_in_progress /\ child = "running"
          /\ signals < MaxSignals =>
       ENABLED (signal_handler /\ exit_code' # "none")

\* the cycle subprocess has recorded the outcome of a volume and has no
\* update_state under way
CycleHasWritten == child = "running" /\ cycle_update = None /\ idx > 1

\* C28: while a cycle is in flight no update written by the cycle is lost or
\* overwritten with stale or default values: whenever the cycle has recorded
\* an outcome and has no update under way, the state record holds the
\* counters and the volume states the cycle wrote last.
C28_NoCycleUpdateLost ==
    CycleHasWritten =>
       /\ get_state.volumes_backed_up = volumes_success
       /\ get_state.volumes_failed = volumes_failed
       /\ Get(get_state, "volume_states", EmptyDict) = volume_states

\* the cycle subprocess has returned from its main: its summary is written
CycleCompleted == child = "exited" /\ returncode = 0

\* C21: after a cycle has completed, an answer to GET /metrics gives the
\* number of volumes that succeeded in it as backup_volumes_success and the
\* number that did not as backup_volumes_failed, both labelled with the host.
C21_MetricsReportLastCycle ==
    response # None /\ CycleCompleted =>
       (response[1].path = "/metrics" =>
           /\ response[1].body.backup_volumes_success =
                 [backuphost |-> HOSTID, value |-> volumes_success]
           /\ response[1].body.backup_volumes_failed =
                 [backuphost |-> HOSTID, value |-> volumes_failed])

\* C25: a step in which the health server answers a request, whatever its
\* path and whatever the scheduler and the cycle are doing, leaves the state
\* record as it was.
C25_HealthServerReadsOnly ==
    [][response' # None /\ response' # response => store' = store]_vars

\* C25 witness: a request for /metrics is being answered while the cycle runs
\* and has recorded a volume.
C25_Witness ==
    /\ response # None /\ child = "running"
    /\ response[1].path = "/metrics"
    /\ response[1].body.backup_volumes_success.value = 1

\* C26: an answer to GET /health is 503 when the stored status is error and
\* 200 otherwise; an answer to GET /ready is 200 when the stored status is
\* idle, running or completed and 503 otherwise.
C26_AnswersFollowStatus ==
    response # None =>
       LET r == response[1]
       IN  /\ r.path = "/health" =>
                r.code = IF get_state.status = "error" THEN 503 ELSE 200
           /\ r.path = "/ready" =>
                r.code = IF get_state.status \in {"idle", "running", "completed"}
                         THEN 200 ELSE 503

\* C26 witness: /health is being answered with 503 after a failed cycle.
C26_Witness ==
    /\ response # None /\ response[1].path = "/health"
    /\ response[1].code = 503 /\ store.status = "error"

\* the volumes of the cycle in flight whose processing has begun, and those
\* whose outcome is recorded
VolumesBegun == IF cycle_pc = "volume" THEN idx ELSE idx - 1
VolumesRecorded == volumes_success + volumes_failed

\* C29: the scheduler starts a cycle only while no cycle subprocess runs, and
\* within a cycle at most one volume has begun without its outcome recorded.
C29_OneCycleOneVolume ==
    /\ [](cycle_pc # "none" => VolumesBegun - VolumesRecorded \in {0, 1})
    /\ [][cycles' # cycles => child # "running" /\ cycles' = cycles + 1]_vars

\* C29 witness: the second volume of the second cycle is being processed, the
\* first one recorded.
C29_Witness ==
    /\ cycles = 2 /\ child = "running"
    /\ cycle_pc = "volume" /\ idx = 2 /\ VolumesRecorded = 1

\* the cycles whose final state run_backup has written
FinishedCycles == IF pc \in {"rb_wait"} THEN cycles - 1 ELSE cycles

\* C30: total_backups + total_failures is the number of finished cycles.
C30_TotalsCountFinishedCycles ==
    cycle_update = None /\ main_update = None =>
       get_state.total_backups + get_state.total_failures = FinishedCycles

\* what GET /metrics gives as backup_last_success_timestamp
LastSuccessTimestamp ==
    handle_metrics(get_state).body.backup_last_success_timestamp.value

\* C31: backup_last_success_timestamp changes only in the step in which
\* run_backup writes the final state of a cycle whose subprocess exited 0; a
\* cycle that fails leaves it as it was.
C31_TimestampOnlyOnSuccess ==
    [][LastSuccessTimestamp' # LastSuccessTimestamp =>
          pc = "rb_wait" /\ child = "exited" /\ returncode = 0]_vars

\* C32: once a termination signal has been received no cycle subprocess is
\* started any more, at whichever point of the scheduler the signal arrived.
C32_NoCycleAfterSignal ==
    [][cycles' # cycles => signals = 0]_vars

\* C33: with MAXBKP at least 1, when the retention pass that follows the
\* upload of a volume's archive has run, that archive is still in the remote
\* directory, whatever else the directory held.
C33_UploadSurvivesRetention ==
    max_backups >= 1 /\ pc = "retention_return" /\ "upload_ok" \in hist =>
       backup_filename(volume) \in remote

\* C34: at the end of a cycle the per-volume state map has one entry per listed
\* volume, as many entries with state 0 as volumes_backed_up counts and as many
\* entries with state 1 or 2 as volumes_failed counts, for any volume list,
\* lists that repeat a name included.
C34_StatesAgreeWithCounters ==
    pc \in {"run_postscript", "done"} /\ "volume_states" \in DOMAIN store =>
       LET states == store.volume_states
           With(S) == Cardinality({v \in DOMAIN states : states[v] \in S})
       IN  /\ Cardinality(DOMAIN states) = Len(volumes)
           /\ With({0}) = store.volumes_backed_up
           /\ With({1, 2}) = store.volumes_failed

\* C35: a cycle subprocess that has gone through all its volumes exits with 0
\* whatever their outcomes, and on exit code 0 the scheduler writes status
\* idle and last_backup_status success, adds one to total_backups and leaves
\* total_failures as it is, so that GET /health is answered healthy.
C35_VolumeFailuresDoNotFailCycle ==
    [][/\ cycle_pc = "summary" /\ cycle_pc' = "none" => returncode' = 0
       /\ pc = "rb_wait" /\ pc' = "rb_clear" /\ returncode = 0 =>
             /\ store'.status = "idle"
             /\ store'.last_backup_status = <<"success">>
             /\ store'.total_backups = get_state.total_backups + 1
             /\ store'.total_failures = get_state.total_failures
             /\ handle_health(store').code = 200]_vars

\* C35 witness: both volumes of a cycle have failed and the scheduler has
\* recorded the cycle as a success.
C35_Witness ==
    /\ pc = "rb_clear" /\ returncode = 0
    /\ Len(volumes) = 2 /\ volumes_failed = 2 /\ volumes_success = 0
    /\ store.status = "idle" /\ store.last_backup_status = <<"success">>
    /\ store.total_backups = 1 /\ store.total_failures = 0

\* the scheduler waits for the next run after a cycle that ended with an error
WaitAfterError ==
    pc \in {"main_loop", "sleep"} /\ child = "exited" /\ returncode # 0

\* C36: in scheduled mode, during the whole wait that follows a cycle ended
\* with status error, the status read from the state file is error, and an
\* answer to GET /health or to GET /ready is 503.
C36_ErrorThroughoutWait ==
    WaitAfterError /\ wakeup_time_str = "HH:MM" =>
       /\ get_state.status = "error"
       /\ response # None /\ response[1].path \in {"/health", "/ready"} =>
             response[1].code = 503

====
